---- MODULE Spec2Model ----
(***************************************************************************)
(* IFR 2023A frequency standard calibration (calibrate_synth.py driving    *)
(* the ifr2023a.py driver), as a state machine.                            *)
(*                                                                         *)
(* Spec     : one run_calibration session, statement by statement, with    *)
(*            KeyboardInterrupt deliverable at every statement of the try  *)
(*            body and measure_offset as one step (a mean, or the          *)
(*            insufficient-samples RuntimeError).                          *)
(* MeasureSpec : measure_offset and flush_history, poll by poll, against   *)
(*            the delta-f history of the FPGA.                             *)
(* PlanSpec : the correction round(-offset / gain) and its clamp, applied  *)
(*            to offsets and gains of both signs.                          *)
(* Offsets are integers in Hz; a gain is the exact fraction <<num, den>>.  *)
(***************************************************************************)
EXTENDS Integers, Sequences, FiniteSets, TLC

\* ---------------------------------------------------------------- constants

\* calibrate_synth.py:48
DISCARD_FIRST_SAMPLES == 2
\* calibrate_synth.py:46, the default of --target-ppb
DEFAULT_TARGET_PPB == 100
\* calibrate_synth.py:44, MEASURE_FREQ_HZ = 62.5 MHz, in units of 100 kHz
MEASURE_FREQ_E5 == 625
\* calibrate_synth.py:571, coarse_threshold_hz = 5.0
COARSE_THRESHOLD_HZ == 5
\* calibrate_synth.py:331
MAX_CDAC_READJUST == 2
\* calibrate_synth.py:292, range(3)
COARSE_ITERATIONS == 3
\* calibrate_synth.py:364, range(8)
FINE_ITERATIONS == 8
\* ifr2023a.py:383, the DAC domain [0, 255]
DAC_MAX == 255
\* calibrate_synth.py:244, 290, 396: the fine DAC midrange
FDAC_MID == 128
\* calibrate_synth.py:253 and 340: the probe steps
CDAC_PROBE_STEP == 10
FDAC_PROBE_STEP == 20

\* ------------------------------------------------------------------- bounds

\* The magnitude of a large measured offset (Hz), and of one near the targets.
BigOffset == 400
SmallOffset == 7

\* The mean offsets measure_offset may return in a session: on frequency, just
\* above the convergence target, far off on the other side.
MeasVals == {0, SmallOffset, -BigOffset}

\* The <<coarse, fine>> DAC values the instrument may hold at session start.
StartDacs == {<<0, 128>>, <<120, 255>>, <<255, 0>>}

\* ------------------------------------------------------------ pure functions

Abs(x) == IF x < 0 THEN -x ELSE x

Min(a, b) == IF a < b THEN a ELSE b

Max(a, b) == IF a > b THEN a ELSE b

\* Mutant of Clip: the proposal is passed on unclamped.
ClipBug(x) == x

\* np.clip(x, 0, 255) followed by int(): lines 294, 367, 385, 640.
Clip(x) == Max(0, Min(x, DAC_MAX))

\* Mutant of PyRound: the quotient is rounded down.
PyRoundDown(n, d) == IF d < 0 THEN (-n) \div (-d) ELSE n \div d

\* Python 3 round(n / d) for an exact quotient n/d, d # 0: the nearest integer,
\* a tie going to the even neighbour.
PyRound(n, d) ==
    LET nn == IF d < 0 THEN -n ELSE n
        dd == Abs(d)
        q  == nn \div dd
        r  == nn % dd
    IN  IF 2 * r < dd THEN q
        ELSE IF 2 * r > dd THEN q + 1
        ELSE IF q % 2 = 0 THEN q ELSE q + 1

\* Mutant of Correction: the correction has the sign of the offset.
CorrectionWrongSign(offset_hz, gain) == PyRound(offset_hz * gain[2], gain[1])

\* round(-offset_hz / hz_per_dac) with hz_per_dac = gain[1] / gain[2]
\* (lines 293, 365, 382, 639). gain[1] = 0 is the ZeroDivisionError case and
\* is tested by the caller.
Correction(offset_hz, gain) == PyRound(-(offset_hz * gain[2]), gain[1])

\* abs(offset_hz) < target_hz, target_hz = ppb_to_hz(target_ppb)
\*   = target_ppb * MEASURE_FREQ_HZ / 1e9  (lines 167-169, 570).
\* Mutant of BelowTarget: no offset counts as on target.
BelowTargetNever(offset_hz) == FALSE

BelowTarget(offset_hz) ==
    Abs(offset_hz) * 10000 < DEFAULT_TARGET_PPB * MEASURE_FREQ_E5

AboveTarget(offset_hz) ==
    Abs(offset_hz) * 10000 > DEFAULT_TARGET_PPB * MEASURE_FREQ_E5

\* Mutant of BelowCoarse: the threshold also covers the small offset.
BelowCoarseWide(offset_hz) == Abs(offset_hz) <= SmallOffset

\* abs(offset_hz) < coarse_threshold_hz (lines 283, 310).
BelowCoarse(offset_hz) == Abs(offset_hz) < COARSE_THRESHOLD_HZ

\* Mutant of ProbePoint: the probe never turns downwards.
ProbePointUpOnly(nominal, step) == Min(nominal + step, DAC_MAX)

\* The second point of a sensitivity probe (lines 253-257, 340-344).
ProbePoint(nominal, step) ==
    IF Min(nominal + step, DAC_MAX) - nominal = 0
    THEN Max(nominal - step, 0)
    ELSE Min(nominal + step, DAC_MAX)

\* ---------------------------------------------------------------- variables

VARIABLES
    pc,            \* the statement run_calibration executes next
    exc,           \* the exception being propagated, "none" if none
    args,          \* measure_only, dry_run, auto_save
    in_cal_mode,   \* run_calibration's flag
    synth,         \* the instrument: cal mode, effective DACs, EEPROM DACs, RF
    loc,           \* the controller's local variables
    data,          \* the session record in memory
    disk,          \* the session record file
    sleep_pending, \* set_dac_and_settle wrote and has not slept yet
    dirty,         \* a DAC was written and no settling delay has completed since
    hist,          \* what was sent to the instrument (observation only)
    mo             \* one measure_offset call and the delta-f sample stream

vars == <<pc, exc, args, in_cal_mode, synth, loc, data, disk,
          sleep_pending, dirty, hist, mo>>


\* ------------------------------------------------------- the driver (IFR2023A)

\* cal_fst_init: enter calibration mode (ifr2023a.py:367-375).
cal_fst_init(s) == [s EXCEPT !.cal = TRUE]

\* cal_fst_save: the current CDAC/FDAC go to EEPROM and calibration mode is
\* left (ifr2023a.py:413-420).
cal_fst_save(s) == [s EXCEPT !.cal = FALSE, !.ee_cdac = s.cdac, !.ee_fdac = s.fdac]

\* cal_fst_quit: leave calibration mode, discarding the DAC changes
\* (ifr2023a.py:422-428).
cal_fst_quit(s) == [s EXCEPT !.cal = FALSE, !.cdac = s.ee_cdac, !.fdac = s.ee_fdac]

\* Mutant of InRange: only the upper end is tested.
InRangeUpperOnly(value) == value <= DAC_MAX

\* The range test of cal_fst_set_coarse_dac / cal_fst_set_fine_dac
\* (ifr2023a.py:383, 393).
InRange(value) == 0 <= value /\ value <= DAC_MAX

\* The command the two setters send once the range test passed
\* (ifr2023a.py:385, 395).
cal_fst_set_dac(s, stage, value) ==
    IF stage = "coarse" THEN [s EXCEPT !.cdac = value] ELSE [s EXCEPT !.fdac = value]

\* ------------------------------------------------------------ session helpers

\* The statements of the try body of run_calibration (lines 587-685).
TryPcs == {"setup", "quit0", "rf_on", "p0_date", "p0_ext", "p0_int", "save0",
           "after_p0", "set_flag", "read_dac", "p1_start", "p1_meas_a",
           "p1_write_b", "p1_meas_b", "p1_restore", "p1_ret", "save1",
           "after_p1", "dry_quit", "dry_flag", "dry_result",
           "p2_iter", "p2_meas", "p2_ret", "save2",
           "p3_meas_a", "p3_write_b", "p3_meas_b", "p3_restore", "p3_loop",
           "p3_sat_meas", "p3_sat_mid", "p3_sat_remeas", "p3_nb_meas",
           "p3_meas", "p3_ret", "save3",
           "p4_ask", "p4_save", "p4_verify", "p4_ext", "p4_ck1", "p4_ck2",
           "p4_ret", "clear_flag", "after_p4", "result"}

\* The statements that start a measure_offset call.
MeasurePcs == {"p0_ext", "p0_int", "p1_meas_a", "p1_meas_b", "p2_meas",
               "p3_meas_a", "p3_meas_b", "p3_sat_meas", "p3_sat_remeas",
               "p3_nb_meas", "p3_meas", "p4_verify", "p4_ext", "p4_ck1", "p4_ck2"}

\* Where run_calibration has ended: by return, or by the exception leaving it.
EndPcs == {"returned", "raised"}

At(l) == pc = l /\ ~sleep_pending

\* A phase record appended to data['phases'].
PhaseRec(name) ==
    [name |-> name, skipped |-> FALSE, saved |-> FALSE,
     cdac |-> -1, fdac |-> -1, offset_hz |-> 0]

NoResult == [kind |-> "none", saved |-> FALSE, final_cdac |-> -1, final_fdac |-> -1]

\* The temporary file filepath + '.tmp' (line 182): absent.
NoTmp == -1

\* The record file: absent, or the content of the last save_data; tmp is the
\* number of pieces of the document json.dump has written to the temporary
\* file, or NoTmp.
NoFile == [exists |-> FALSE, phases |-> <<>>, result |-> NoResult, tmp |-> NoTmp]

\* save_data(data, filepath) (lines 180-186): the whole record replaces the file.
save_data(d) ==
    [exists |-> TRUE, phases |-> d.phases, result |-> d.result, tmp |-> NoTmp]

Append_phase(d, rec) == [d EXCEPT !.phases = Append(d.phases, rec)]

\* The controller's locals before they are assigned.
NoGain == <<0, 1>>

\* partial_best is not a local of the code: once the fine proposal has been
\* clamped with the readjustment budget used up, it is the smallest |offset|
\* the fine loop has measured from that iteration on; -1 before.

InitLoc ==
    [cdac |-> -1, fdac |-> -1, offset_hz |-> 0, hz_per_cdac |-> NoGain,
     hz_per_fdac |-> NoGain, mean_a |-> 0, new_dac |-> -1, iteration |-> 0,
     cdac_readjust_count |-> 0, k |-> 0, best_fdac |-> -1, best_offset |-> 0,
     saved |-> FALSE, partial_best |-> -1, mean_sat |-> 0, cdac_correction |-> 0]

\* An exception leaves the try body: control goes to the except clause
\* (lines 687-695); a pending settling sleep is abandoned. The except and
\* finally clauses read data, in_cal_mode and synth only, so the other locals
\* are dropped.
Raise(e) ==
    /\ pc' = "h_save"
    /\ exc' = e
    /\ sleep_pending' = FALSE
    /\ loc' = InitLoc
    /\ mo' = mo

\* Mutant of WriteDac: set_dac_and_settle returns without sleeping.
WriteDacNoSettle(stage, value, next) ==
    /\ synth' = cal_fst_set_dac(synth, stage, value)
    /\ hist' = [hist EXCEPT !.cal_at_write = @ /\ synth.cal]
    /\ sleep_pending' = FALSE
    /\ dirty' = TRUE
    /\ pc' = next
    /\ exc' = exc
    /\ mo' = mo

\* set_dac_and_settle, the write (lines 155-158): the driver's range test, then
\* the command. The sleep of line 159 is the action Settle.
WriteDac(stage, value, next) ==
    IF InRange(value)
    THEN /\ synth' = cal_fst_set_dac(synth, stage, value)
         /\ hist' = [hist EXCEPT !.cal_at_write = @ /\ synth.cal]
         /\ sleep_pending' = TRUE
         /\ dirty' = TRUE
         /\ pc' = next
         /\ exc' = exc
         /\ mo' = mo
    ELSE /\ pc' = "h_save"
         /\ exc' = "ValueError"
         /\ sleep_pending' = FALSE
         /\ UNCHANGED <<synth, hist, dirty, mo>>

\* A statement that neither writes a DAC nor raises.
Goto(next) ==
    /\ pc' = next
    /\ UNCHANGED <<exc, sleep_pending, dirty, mo>>

\* ------------------------------------------- measure_offset and flush_history
\* One call of measure_offset(fpga, duration_s) against the delta-f history of
\* the FPGA. A sample is its seq_counter; the clock counts polling sleeps of
\* 0.2 s.

\* calibrate_synth.py:103, range(5)
FLUSH_POLLS == 5
\* calibrate_synth.py:130, the acquisition slack in seconds
ACQ_SLACK_S == 5
\* calibrate_synth.py:143, time.sleep(0.2): polls per second
POLLS_PER_S == 5
\* calibrate_synth.py:146, the floor below which no Measurement is produced
MIN_SAMPLES == 3

\* The largest seq_counter the stream produces, the largest jump between two
\* consecutive seq_counters, and the longest a 0.2 s sleep may take (in units
\* of 0.2 s).
MaxSeq == 6
MaxGap == 2
MaxSleepTicks == 20

\* The number of successive measure_offset calls followed on one stream.
MaxCalls == 2

\* The values of duration_s: one below the floor of 3 samples, one above it.
Durations == {MIN_SAMPLES - 1, MIN_SAMPLES + 1}

\* The clock stops counting here, beyond every budget of the model.
ClockCap == (MIN_SAMPLES + 2 + DISCARD_FIRST_SAMPLES + ACQ_SLACK_S) * POLLS_PER_S
            + MaxSleepTicks

\* The state of no call. calls counts the calls started; prev_last_seq is the
\* last_seq the previous call ended with: that call consumed the samples up to
\* it.
IdleMo ==
    [pc |-> "idle", duration_s |-> 0, stream |-> <<>>, last_seq |-> 0,
     flush_i |-> 0, values |-> <<>>, raw_count |-> 0, elapsed |-> 0,
     calls |-> 0, prev_last_seq |-> 0, present_seq |-> 0]

Last(seq) == seq[Len(seq)]

\* fpga.get_deltaf_history_since(last_seq): the samples of the history whose
\* seq_counter is above last_seq, in order; never blocks, may be empty.
get_deltaf_history_since(stream, last_seq) ==
    SelectSeq(stream, LAMBDA o : o > last_seq)

\* Mutant of WithinBudget: the loop has no time budget.
NoBudget(elapsed, duration_s) == TRUE

\* Line 130: time.time() - t0 < duration_s + DISCARD_FIRST_SAMPLES + 5.
WithinBudget(elapsed, duration_s) ==
    elapsed < (duration_s + DISCARD_FIRST_SAMPLES + ACQ_SLACK_S) * POLLS_PER_S

\* Mutant of Insufficient: the floor is not tested.
NeverInsufficient(n) == FALSE

\* Line 146: len(values) < 3.
Insufficient(n) == n < MIN_SAMPLES

\* Mutant of Kept: no sample of the call is dropped.
KeptAll(new, raw_count) == new

\* Lines 132-137 for one batch: every sample is counted in raw_count, the first
\* DISCARD_FIRST_SAMPLES of the call are dropped, the others are appended.
Kept(new, raw_count) ==
    SelectSeq([i \in 1..Len(new) |-> IF raw_count + i <= DISCARD_FIRST_SAMPLES
                                      THEN 0 ELSE new[i]],
              LAMBDA o : o # 0)

\* The FPGA appends a sample to its history; seq_counters strictly increase
\* and may skip.
Produce ==
    /\ mo.pc \notin {"idle", "returned", "raised"}
    /\ LET last == IF mo.stream = <<>> THEN 0 ELSE Last(mo.stream)
       IN  \E o \in (last + 1)..Min(last + MaxGap, MaxSeq) :
             mo' = [mo EXCEPT !.stream = Append(@, o)]
    /\ UNCHANGED <<pc, exc, args, in_cal_mode, synth, loc, data, disk,
                   sleep_pending, dirty, hist>>

\* flush_history, lines 103-107 and 124-128: one poll of the drain loop; the
\* loop ends after FLUSH_POLLS polls or on an empty poll, and measure_offset
\* starts its clock.
m_flush_poll ==
    /\ mo.pc = "flush"
    /\ IF mo.flush_i >= FLUSH_POLLS
       THEN mo' = [mo EXCEPT !.pc = "loop_test", !.elapsed = 0]
       ELSE LET samples == get_deltaf_history_since(mo.stream, mo.last_seq)
            IN  IF samples = <<>>
                THEN mo' = [mo EXCEPT !.pc = "loop_test", !.elapsed = 0,
                                      !.flush_i = @ + 1]
                ELSE mo' = [mo EXCEPT !.pc = "flush_sleep", !.flush_i = @ + 1,
                                      !.last_seq = Last(samples)]
    /\ UNCHANGED <<pc, exc, args, in_cal_mode, synth, loc, data, disk,
                   sleep_pending, dirty, hist>>

\* flush_history, line 108.
m_flush_sleep ==
    /\ mo.pc = "flush_sleep"
    /\ mo' = [mo EXCEPT !.pc = "flush"]
    /\ UNCHANGED <<pc, exc, args, in_cal_mode, synth, loc, data, disk,
                   sleep_pending, dirty, hist>>

\* Line 130: the while test.
m_loop_test ==
    /\ mo.pc = "loop_test"
    /\ mo' = [mo EXCEPT !.pc = IF WithinBudget(mo.elapsed, mo.duration_s)
                               THEN "poll" ELSE "after_loop"]
    /\ UNCHANGED <<pc, exc, args, in_cal_mode, synth, loc, data, disk,
                   sleep_pending, dirty, hist>>

\* Mutant of m_poll: last_seq is not advanced past the samples of the poll.
m_poll_stale ==
    /\ mo.pc = "poll"
    /\ LET new == get_deltaf_history_since(mo.stream, mo.last_seq)
           values == mo.values \o Kept(new, mo.raw_count)
       IN  mo' = [mo EXCEPT !.raw_count = @ + Len(new),
                            !.values = values,
                            !.pc = IF Len(values) >= mo.duration_s
                                   THEN "after_loop" ELSE "sleep"]
    /\ UNCHANGED <<pc, exc, args, in_cal_mode, synth, loc, data, disk,
                   sleep_pending, dirty, hist>>

\* Lines 131-142: one poll; the loop is left once len(values) >= duration_s.
m_poll ==
    /\ mo.pc = "poll"
    /\ LET new == get_deltaf_history_since(mo.stream, mo.last_seq)
           values == mo.values \o Kept(new, mo.raw_count)
       IN  mo' = [mo EXCEPT !.raw_count = @ + Len(new),
                            !.last_seq = IF new = <<>> THEN @ ELSE Last(new),
                            !.values = values,
                            !.pc = IF Len(values) >= mo.duration_s
                                   THEN "after_loop" ELSE "sleep"]
    /\ UNCHANGED <<pc, exc, args, in_cal_mode, synth, loc, data, disk,
                   sleep_pending, dirty, hist>>

\* Line 143: time.sleep(0.2) takes at least 0.2 s.
m_sleep ==
    /\ mo.pc = "sleep"
    /\ \E d \in {1, MaxSleepTicks} :
         mo' = [mo EXCEPT !.pc = "loop_test",
                          !.elapsed = Min(@ + d, ClockCap)]
    /\ UNCHANGED <<pc, exc, args, in_cal_mode, synth, loc, data, disk,
                   sleep_pending, dirty, hist>>

\* Lines 146-150: the RuntimeError, or (mean, std, len(values)).
m_after_loop ==
    /\ mo.pc = "after_loop"
    /\ mo' = [mo EXCEPT !.pc = IF Insufficient(Len(mo.values))
                               THEN "raised" ELSE "returned"]
    /\ UNCHANGED <<pc, exc, args, in_cal_mode, synth, loc, data, disk,
                   sleep_pending, dirty, hist>>

\* The caller got its Measurement and calls measure_offset again (the next
\* measurement of the session): flush_history starts from last_seq = 0
\* (line 102), values and raw_count are fresh (lines 126-127).
m_next_call ==
    /\ mo.pc = "returned"
    /\ mo.calls < MaxCalls
    /\ \E d \in Durations :
         mo' = [mo EXCEPT !.pc = "flush", !.duration_s = d, !.last_seq = 0,
                          !.flush_i = 0, !.values = <<>>, !.raw_count = 0,
                          !.elapsed = 0, !.calls = @ + 1,
                          !.prev_last_seq = mo.last_seq,
                          !.present_seq = IF mo.stream = <<>> THEN 0
                                          ELSE Last(mo.stream)]
    /\ UNCHANGED <<pc, exc, args, in_cal_mode, synth, loc, data, disk,
                   sleep_pending, dirty, hist>>

\* ---------------------------------------------------------------------- Init

Init ==
    /\ pc = "setup"
    /\ exc = "none"
    /\ args \in [measure_only : BOOLEAN, dry_run : BOOLEAN, auto_save : BOOLEAN]
    /\ in_cal_mode = FALSE
    /\ \E start \in StartDacs :
         /\ synth = [cal |-> FALSE, cdac |-> start[1], fdac |-> start[2],
                     ee_cdac |-> start[1], ee_fdac |-> start[2], rf |-> FALSE]
         /\ hist = [saves |-> 0, quits |-> 0, last_cal |-> "none",
                    rf_off |-> FALSE, fin_quit |-> FALSE, cal_at_write |-> TRUE,
                    response |-> "none",
                    start_cdac |-> start[1], start_fdac |-> start[2]]
    /\ loc = InitLoc
    /\ data = [phases |-> <<>>, result |-> NoResult]
    /\ disk = NoFile
    /\ sleep_pending = FALSE
    /\ dirty = FALSE
    /\ mo = IdleMo


\* ------------------------------------------------- run_calibration: the setup

\* Lines 589-590: disable_servo_ch1, set_deltaf_streaming(True).
r_setup ==
    /\ At("setup")
    /\ Goto("quit0")
    /\ UNCHANGED <<args, in_cal_mode, synth, loc, data, disk, hist>>

\* Lines 593-596: the precautionary cal_fst_quit.
r_quit0 ==
    /\ At("quit0")
    /\ synth' = cal_fst_quit(synth)
    /\ hist' = [hist EXCEPT !.quits = 1, !.last_cal = "quit"]
    /\ Goto("rf_on")
    /\ UNCHANGED <<args, in_cal_mode, loc, data, disk>>

\* Lines 598-601: set_frequency, set_amplitude, rf_on.
r_rf_on ==
    /\ At("rf_on")
    /\ synth' = [synth EXCEPT !.rf = TRUE]
    /\ Goto("p0_date")
    /\ UNCHANGED <<args, in_cal_mode, loc, data, disk, hist>>

\* ------------------------------------------------------------------- phase 0

\* Lines 201-208: the Level 2 access check; without access a RuntimeError.
p0_date ==
    /\ At("p0_date")
    /\ \/ Goto("p0_ext") /\ UNCHANGED loc
       \/ Raise("RuntimeError") /\ UNCHANGED dirty
    /\ UNCHANGED <<args, in_cal_mode, synth, data, disk, hist>>

\* Lines 212-216: the EXT10DIR reference check.
p0_ext ==
    /\ At("p0_ext")
    /\ \E m \in MeasVals : Goto("p0_int")
    /\ UNCHANGED <<args, in_cal_mode, synth, loc, data, disk, hist>>

\* Lines 224-232: the INT baseline; the phase record is appended.
p0_int ==
    /\ At("p0_int")
    /\ \E m \in MeasVals :
         /\ loc' = [loc EXCEPT !.offset_hz = m]
         /\ data' = Append_phase(data, PhaseRec("phase0_verify"))
    /\ Goto("save0")
    /\ UNCHANGED <<args, in_cal_mode, synth, disk, hist>>

\* Line 605.
r_save0 ==
    /\ At("save0")
    /\ disk' = save_data(data)
    /\ Goto("after_p0")
    /\ UNCHANGED <<args, in_cal_mode, synth, loc, data, hist>>

\* The return statements of the try body (lines 614, 650, 685): the finally
\* clause runs next.
Return ==
    /\ pc' = "fin_quit"
    /\ loc' = InitLoc
    /\ UNCHANGED <<exc, sleep_pending, dirty, mo>>

\* Lines 607-614: --measure-only.
r_measure_only ==
    /\ At("after_p0")
    /\ args.measure_only
    /\ data' = [data EXCEPT !.result = [NoResult EXCEPT !.kind = "measure_only"]]
    /\ disk' = save_data(data')
    /\ Return
    /\ UNCHANGED <<args, in_cal_mode, synth, hist>>

\* Mutant of r_cal_init: the flag is set for a CAL:FST:INIT that is not sent.
r_cal_init_unsent ==
    /\ At("after_p0")
    /\ ~args.measure_only
    /\ Goto("set_flag")
    /\ UNCHANGED <<args, in_cal_mode, synth, loc, data, disk, hist>>

\* Line 618: synth.cal_fst_init().
r_cal_init ==
    /\ At("after_p0")
    /\ ~args.measure_only
    /\ synth' = cal_fst_init(synth)
    /\ hist' = [hist EXCEPT !.last_cal = "init"]
    /\ Goto("set_flag")
    /\ UNCHANGED <<args, in_cal_mode, loc, data, disk>>

\* Line 619: in_cal_mode = True.
r_set_flag ==
    /\ At("set_flag")
    /\ in_cal_mode' = TRUE
    /\ Goto("read_dac")
    /\ UNCHANGED <<args, synth, loc, data, disk, hist>>

\* Lines 622-632: read the DACs, store them in the phase 0 record, INT clock.
r_read_dac ==
    /\ At("read_dac")
    /\ loc' = [loc EXCEPT !.cdac = synth.cdac, !.fdac = synth.fdac]
    /\ data' = [data EXCEPT !.phases[1].cdac = synth.cdac,
                            !.phases[1].fdac = synth.fdac]
    /\ Goto("p1_start")
    /\ UNCHANGED <<args, in_cal_mode, synth, disk, hist>>

\* ------------------------------------------------------------------- phase 1

\* Lines 244-246: FDAC to midrange if it is not there.
p1_start ==
    /\ At("p1_start")
    /\ IF loc.fdac # FDAC_MID
       THEN WriteDac("fine", FDAC_MID, "p1_meas_a")
       ELSE Goto("p1_meas_a") /\ UNCHANGED <<synth, hist>>
    /\ UNCHANGED <<args, in_cal_mode, loc, data, disk>>

\* Line 248: the measurement at (cdac, 128).
p1_meas_a ==
    /\ At("p1_meas_a")
    /\ \E m \in MeasVals : loc' = [loc EXCEPT !.mean_a = m]
    /\ Goto("p1_write_b")
    /\ UNCHANGED <<args, in_cal_mode, synth, data, disk, hist>>

\* Lines 253-259: the second probe point is written.
p1_write_b ==
    /\ At("p1_write_b")
    /\ LET cdac_b == ProbePoint(loc.cdac, CDAC_PROBE_STEP)
       IN  /\ WriteDac("coarse", cdac_b, "p1_meas_b")
           /\ loc' = [loc EXCEPT !.new_dac = cdac_b]
    /\ UNCHANGED <<args, in_cal_mode, data, disk>>

\* Lines 260-265: the second measurement and the finite difference.
p1_meas_b ==
    /\ At("p1_meas_b")
    /\ \E m \in MeasVals :
         loc' = [loc EXCEPT !.hz_per_cdac = <<m - loc.mean_a, loc.new_dac - loc.cdac>>,
                            !.new_dac = -1]
    /\ Goto("p1_restore")
    /\ UNCHANGED <<args, in_cal_mode, synth, data, disk, hist>>

\* Line 269: the original CDAC is restored.
p1_restore ==
    /\ At("p1_restore")
    /\ WriteDac("coarse", loc.cdac, "p1_ret")
    /\ UNCHANGED <<args, in_cal_mode, loc, data, disk>>

\* Lines 271-272 and 635: the record is appended; offset_hz = mean_a.
p1_ret ==
    /\ At("p1_ret")
    /\ data' = Append_phase(data, PhaseRec("phase1_cdac_sensitivity"))
    /\ loc' = [loc EXCEPT !.offset_hz = loc.mean_a, !.mean_a = 0]
    /\ Goto("save1")
    /\ UNCHANGED <<args, in_cal_mode, synth, disk, hist>>

\* Line 636.
r_save1 ==
    /\ At("save1")
    /\ disk' = save_data(data)
    /\ Goto("after_p1")
    /\ UNCHANGED <<args, in_cal_mode, synth, loc, data, hist>>


\* ------------------------------------------------------------------- dry run

\* Lines 638-642: --dry-run plans the coarse correction; a zero gain makes the
\* division raise ZeroDivisionError.
r_dry_plan ==
    /\ At("after_p1")
    /\ args.dry_run
    /\ IF loc.hz_per_cdac[1] = 0
       THEN /\ Raise("ZeroDivisionError")
            /\ UNCHANGED dirty
       ELSE /\ Goto("dry_quit")
            /\ loc' = [loc EXCEPT
                 !.new_dac = Clip(loc.cdac + Correction(loc.offset_hz, loc.hz_per_cdac))]
    /\ UNCHANGED <<args, in_cal_mode, synth, data, disk, hist>>

\* Line 643.
r_dry_quit ==
    /\ At("dry_quit")
    /\ synth' = cal_fst_quit(synth)
    /\ hist' = [hist EXCEPT !.quits = @ + 1, !.last_cal = "quit"]
    /\ Goto("dry_flag")
    /\ UNCHANGED <<args, in_cal_mode, loc, data, disk>>

\* Line 644.
r_dry_flag ==
    /\ At("dry_flag")
    /\ in_cal_mode' = FALSE
    /\ Goto("dry_result")
    /\ UNCHANGED <<args, synth, loc, data, disk, hist>>

\* Lines 645-650.
r_dry_result ==
    /\ At("dry_result")
    /\ data' = [data EXCEPT !.result = [NoResult EXCEPT !.kind = "dry_run"]]
    /\ disk' = save_data(data')
    /\ Return
    /\ UNCHANGED <<args, in_cal_mode, synth, hist>>

\* ------------------------------------------------------------------- phase 2

\* Mutant of p2_start: a skipped phase 2 leaves no record.
p2_start_unrecorded ==
    /\ At("after_p1")
    /\ ~args.dry_run
    /\ IF BelowCoarse(loc.offset_hz) THEN Goto("save2") ELSE Goto("p2_iter")
    /\ loc' = [loc EXCEPT !.iteration = 0]
    /\ UNCHANGED <<args, in_cal_mode, synth, data, disk, hist>>

\* Lines 283-290: skipped when the offset is already within the coarse threshold.
p2_start ==
    /\ At("after_p1")
    /\ ~args.dry_run
    /\ IF BelowCoarse(loc.offset_hz)
       THEN /\ data' = Append_phase(data,
                 [PhaseRec("phase2_coarse") EXCEPT !.skipped = TRUE])
            /\ Goto("save2")
       ELSE /\ data' = data
            /\ Goto("p2_iter")
    /\ loc' = [loc EXCEPT !.iteration = 0]
    /\ UNCHANGED <<args, in_cal_mode, synth, disk, hist>>

\* Lines 293-298: one proportional correction of the coarse DAC.
p2_iter ==
    /\ At("p2_iter")
    /\ IF loc.hz_per_cdac[1] = 0
       THEN /\ Raise("ZeroDivisionError")
            /\ UNCHANGED <<dirty, synth, hist>>
       ELSE LET correction == Correction(loc.offset_hz, loc.hz_per_cdac)
                new_cdac == Clip(loc.cdac + correction)
            IN  /\ WriteDac("coarse", new_cdac, "p2_meas")
                /\ loc' = [loc EXCEPT !.new_dac = new_cdac]
    /\ UNCHANGED <<args, in_cal_mode, data, disk>>

\* Lines 299-312: the measurement after the correction; the loop ends when the
\* offset is within the coarse threshold or after range(3).
p2_after_meas(mean_hz) ==
    /\ loc' = [loc EXCEPT !.cdac = loc.new_dac, !.offset_hz = mean_hz,
                          !.new_dac = -1, !.iteration = @ + 1]
    /\ IF BelowCoarse(mean_hz) \/ loc.iteration + 1 >= COARSE_ITERATIONS
       THEN Goto("p2_ret")
       ELSE Goto("p2_iter")

p2_meas ==
    /\ At("p2_meas")
    /\ \E m \in MeasVals : p2_after_meas(m)
    /\ UNCHANGED <<args, in_cal_mode, synth, data, disk, hist>>

\* Lines 314-317.
p2_ret ==
    /\ At("p2_ret")
    /\ data' = Append_phase(data, PhaseRec("phase2_coarse"))
    /\ Goto("save2")
    /\ UNCHANGED <<args, in_cal_mode, synth, loc, disk, hist>>

\* Line 655.
r_save2 ==
    /\ At("save2")
    /\ disk' = save_data(data)
    /\ Goto("p3_meas_a")
    /\ UNCHANGED <<args, in_cal_mode, synth, loc, data, hist>>

\* ------------------------------------------------------------------- phase 3

\* Lines 658 and 337: fdac = 128, then the first measurement of the FDAC probe.
p3_meas_a ==
    /\ At("p3_meas_a")
    /\ \E m \in MeasVals :
         loc' = [loc EXCEPT !.fdac = FDAC_MID, !.mean_a = m, !.iteration = 0]
    /\ Goto("p3_write_b")
    /\ UNCHANGED <<args, in_cal_mode, synth, data, disk, hist>>

\* Lines 340-346.
p3_write_b ==
    /\ At("p3_write_b")
    /\ LET fdac_b == ProbePoint(loc.fdac, FDAC_PROBE_STEP)
       IN  /\ WriteDac("fine", fdac_b, "p3_meas_b")
           /\ loc' = [loc EXCEPT !.new_dac = fdac_b]
    /\ UNCHANGED <<args, in_cal_mode, data, disk>>

\* Mutant of p3_meas_b: the gain is not tested against the floor.
p3_meas_b_unfloored ==
    /\ At("p3_meas_b")
    /\ \E m \in MeasVals :
         loc' = [loc EXCEPT !.hz_per_fdac = <<m - loc.mean_a, loc.new_dac - loc.fdac>>,
                            !.new_dac = -1]
    /\ Goto("p3_restore")
    /\ UNCHANGED <<args, in_cal_mode, synth, data, disk, hist>>

\* Lines 347-357: the FDAC gain; below 1e-6 the phase returns at once with
\* (cdac, fdac, mean_a). With integer means |gain| < 1e-6 is gain = 0.
p3_meas_b ==
    /\ At("p3_meas_b")
    /\ \E m \in MeasVals :
         LET gain == <<m - loc.mean_a, loc.new_dac - loc.fdac>>
         IN  IF gain[1] = 0
             THEN /\ data' = Append_phase(data, PhaseRec("phase3_fine"))
                  /\ loc' = [loc EXCEPT !.new_dac = -1, !.hz_per_cdac = NoGain,
                                        !.offset_hz = loc.mean_a, !.mean_a = 0]
                  /\ Goto("save3")
             ELSE /\ data' = data
                  /\ loc' = [loc EXCEPT !.hz_per_fdac = gain, !.new_dac = -1]
                  /\ Goto("p3_restore")
    /\ UNCHANGED <<args, in_cal_mode, synth, disk, hist>>

\* Lines 360-362: FDAC restored; offset_hz = mean_a; cdac_readjust_count = 0.
p3_restore ==
    /\ At("p3_restore")
    /\ WriteDac("fine", loc.fdac, "p3_loop")
    /\ loc' = [loc EXCEPT !.offset_hz = loc.mean_a, !.mean_a = 0,
                          !.cdac_readjust_count = 0, !.iteration = 0]
    /\ UNCHANGED <<args, in_cal_mode, data, disk>>


\* Lines 382-384: the coarse correction of the saturation fallback, a unit step
\* when it rounds to zero.
CdacCorrection(mean_sat, hz_per_cdac) ==
    LET cdac_correction == Correction(mean_sat, hz_per_cdac)
    IN  IF cdac_correction = 0
        THEN (IF mean_sat < 0 THEN -1 ELSE 1)
        ELSE cdac_correction

\* Mutant of FineLoopContinues: the loop has no iteration cap.
FineLoopUnbounded(iteration) == TRUE

\* Mutant of TakesFallback: the fallback is taken whenever budget remains,
\* clamped or not.
FallbackWheneverBudget(new_fdac, unclamped_fdac, cdac_readjust_count) ==
    cdac_readjust_count < MAX_CDAC_READJUST

\* Line 370: the fine proposal was clamped and readjustment budget remains.
TakesFallback(new_fdac, unclamped_fdac, cdac_readjust_count) ==
    new_fdac # unclamped_fdac /\ cdac_readjust_count < MAX_CDAC_READJUST

\* Line 364: the for loop has iterations left.
FineLoopContinues(iteration) == iteration < FINE_ITERATIONS

\* Lines 364-377, 405-410, 425: the head of one fine-loop iteration and the DAC
\* write its branch starts with.
p3_loop ==
    /\ At("p3_loop")
    /\ IF ~FineLoopContinues(loc.iteration)
       THEN /\ Goto("p3_ret")
            /\ UNCHANGED <<loc, synth, hist>>
       ELSE LET correction == Correction(loc.offset_hz, loc.hz_per_fdac)
                unclamped_fdac == loc.fdac + correction
                new_fdac == Clip(unclamped_fdac)
                partial_best == IF new_fdac # unclamped_fdac /\ loc.partial_best = -1
                                THEN Abs(loc.offset_hz) ELSE loc.partial_best
            IN  IF TakesFallback(new_fdac, unclamped_fdac, loc.cdac_readjust_count)
                THEN /\ WriteDac("fine", new_fdac, "p3_sat_meas")
                     /\ loc' = [loc EXCEPT !.cdac_readjust_count = @ + 1]
                ELSE IF new_fdac = loc.fdac /\ AboveTarget(loc.offset_hz)
                THEN /\ WriteDac("fine", Max(loc.fdac - 1, 0), "p3_nb_meas")
                     /\ loc' = [loc EXCEPT !.best_fdac = loc.fdac,
                                           !.best_offset = loc.offset_hz,
                                           !.k = 0,
                                           !.new_dac = Max(loc.fdac - 1, 0),
                                           !.partial_best = partial_best]
                ELSE /\ WriteDac("fine", new_fdac, "p3_meas")
                     /\ loc' = [loc EXCEPT !.new_dac = new_fdac,
                                           !.partial_best = partial_best]
    /\ UNCHANGED <<args, in_cal_mode, data, disk>>

\* Lines 378-388: the residual at the saturated FDAC and the coarse readjustment.
p3_sat_meas ==
    /\ At("p3_sat_meas")
    /\ \E mean_sat \in MeasVals :
         IF loc.hz_per_cdac[1] = 0
         THEN /\ Raise("ZeroDivisionError")
              /\ UNCHANGED <<dirty, synth, hist>>
         ELSE LET cdac_correction == CdacCorrection(mean_sat, loc.hz_per_cdac)
                  new_cdac == Clip(loc.cdac + cdac_correction)
              IN  /\ WriteDac("coarse", new_cdac, "p3_sat_mid")
                  /\ loc' = [loc EXCEPT !.new_dac = new_cdac,
                                        !.mean_sat = mean_sat,
                                        !.cdac_correction = cdac_correction]
    /\ UNCHANGED <<args, in_cal_mode, data, disk>>

\* Mutant of p3_sat_mid: the fine value is reset in the controller only.
p3_sat_mid_unwritten ==
    /\ At("p3_sat_mid")
    /\ Goto("p3_sat_remeas")
    /\ loc' = [loc EXCEPT !.cdac = loc.new_dac, !.fdac = FDAC_MID, !.new_dac = -1,
                          !.mean_sat = 0, !.cdac_correction = 0]
    /\ UNCHANGED <<args, in_cal_mode, synth, data, disk, hist>>

\* Lines 389-397: the readjustment is recorded; cdac = new_cdac; FDAC back to
\* midrange.
p3_sat_mid ==
    /\ At("p3_sat_mid")
    /\ WriteDac("fine", FDAC_MID, "p3_sat_remeas")
    /\ loc' = [loc EXCEPT !.cdac = loc.new_dac, !.fdac = FDAC_MID, !.new_dac = -1,
                          !.mean_sat = 0, !.cdac_correction = 0]
    /\ UNCHANGED <<args, in_cal_mode, data, disk>>

\* Lines 398-400: the fresh measurement, then continue.
p3_sat_remeas ==
    /\ At("p3_sat_remeas")
    /\ \E m \in MeasVals :
         loc' = [loc EXCEPT !.offset_hz = m, !.iteration = @ + 1]
    /\ Goto("p3_loop")
    /\ UNCHANGED <<args, in_cal_mode, synth, data, disk, hist>>

\* Lines 409-423: the neighbour search, one candidate per step; after the
\* second candidate the best FDAC is written and the loop is left.
p3_nb_meas ==
    /\ At("p3_nb_meas")
    /\ \E m \in MeasVals :
         LET better == Abs(m) < Abs(loc.best_offset)
             best_fdac == IF better THEN loc.new_dac ELSE loc.best_fdac
             best_offset == IF better THEN m ELSE loc.best_offset
             partial_best == IF loc.partial_best = -1 THEN -1
                             ELSE Min(loc.partial_best, Abs(m))
         IN  IF loc.k = 0
             THEN /\ WriteDac("fine", Min(loc.fdac + 1, DAC_MAX), "p3_nb_meas")
                  /\ loc' = [loc EXCEPT !.best_fdac = best_fdac,
                                        !.best_offset = best_offset,
                                        !.k = 1,
                                        !.new_dac = Min(loc.fdac + 1, DAC_MAX),
                                        !.partial_best = partial_best]
             ELSE /\ WriteDac("fine", best_fdac, "p3_ret")
                  /\ loc' = [loc EXCEPT !.fdac = best_fdac,
                                        !.offset_hz = best_offset,
                                        !.best_fdac = -1, !.best_offset = 0,
                                        !.k = 0, !.new_dac = -1,
                                        !.partial_best = partial_best]
    /\ UNCHANGED <<args, in_cal_mode, data, disk>>

\* Lines 426-439: the measurement after a fine correction.
p3_meas ==
    /\ At("p3_meas")
    /\ \E m \in MeasVals :
         /\ loc' = [loc EXCEPT !.fdac = loc.new_dac, !.offset_hz = m,
                               !.new_dac = -1, !.iteration = @ + 1,
                               !.partial_best = IF @ = -1 THEN -1 ELSE Min(@, Abs(m))]
         /\ IF BelowTarget(m) THEN Goto("p3_ret") ELSE Goto("p3_loop")
    /\ UNCHANGED <<args, in_cal_mode, synth, data, disk, hist>>

\* Lines 441-445: the record is appended and (cdac, fdac, offset_hz) returned;
\* the gains and the loop counters are not read again.
p3_ret ==
    /\ At("p3_ret")
    /\ data' = Append_phase(data,
         [PhaseRec("phase3_fine") EXCEPT !.cdac = loc.cdac, !.fdac = loc.fdac,
                                         !.offset_hz = loc.offset_hz])
    /\ loc' = [loc EXCEPT !.hz_per_cdac = NoGain, !.hz_per_fdac = NoGain,
                          !.iteration = 0, !.cdac_readjust_count = 0,
                          !.partial_best = -1]
    /\ Goto("save3")
    /\ UNCHANGED <<args, in_cal_mode, synth, disk, hist>>

\* Line 661.
r_save3 ==
    /\ At("save3")
    /\ disk' = save_data(data)
    /\ Goto("p4_ask")
    /\ UNCHANGED <<args, in_cal_mode, synth, loc, data, hist>>


\* ------------------------------------------------------------------- phase 4

\* The operator's answers to "Save to EEPROM? [y/N]" (line 466).
Responses == {"y", "n"}

\* Mutant of Confirmed: the answer is not looked at.
ConfirmedAlways(auto_save, response) == TRUE

\* Lines 464-467: the commit goes ahead with --auto-save or the answer 'y'.
Confirmed(auto_save, response) == auto_save \/ response = "y"

\* Lines 464-471: the confirmation; declined, the record says saved = False and
\* the phase returns False.
p4_ask ==
    /\ At("p4_ask")
    /\ \E response \in (IF args.auto_save THEN {"none"} ELSE Responses) :
         /\ hist' = [hist EXCEPT !.response = response]
         /\ IF Confirmed(args.auto_save, response)
            THEN /\ Goto("p4_save")
                 /\ UNCHANGED <<data, loc>>
            ELSE /\ data' = Append_phase(data, PhaseRec("phase4_save_verify"))
                 /\ loc' = [loc EXCEPT !.saved = FALSE]
                 /\ Goto("clear_flag")
    /\ UNCHANGED <<args, in_cal_mode, synth, disk>>

\* Line 476: synth.cal_fst_save().
p4_save ==
    /\ At("p4_save")
    /\ synth' = cal_fst_save(synth)
    /\ hist' = [hist EXCEPT !.saves = @ + 1, !.last_cal = "save"]
    /\ Goto("p4_verify")
    /\ UNCHANGED <<args, in_cal_mode, loc, data, disk>>

\* Lines 483-490: the INT verification measurement.
p4_verify ==
    /\ At("p4_verify")
    /\ \E m \in MeasVals : Goto("p4_ext")
    /\ UNCHANGED <<args, in_cal_mode, synth, loc, data, disk, hist>>

\* Lines 494-498: the EXT10DIR control measurement.
p4_ext ==
    /\ At("p4_ext")
    /\ \E m \in MeasVals : Goto("p4_ck1")
    /\ UNCHANGED <<args, in_cal_mode, synth, loc, data, disk, hist>>

\* Lines 501-517: the cross-checks at 110 MHz and 10 MHz.
p4_ck1 ==
    /\ At("p4_ck1")
    /\ \E m \in MeasVals : Goto("p4_ck2")
    /\ UNCHANGED <<args, in_cal_mode, synth, loc, data, disk, hist>>

p4_ck2 ==
    /\ At("p4_ck2")
    /\ \E m \in MeasVals : Goto("p4_ret")
    /\ UNCHANGED <<args, in_cal_mode, synth, loc, data, disk, hist>>

\* Lines 520-524: the record (saved = True, cdac, fdac) is appended.
p4_ret ==
    /\ At("p4_ret")
    /\ data' = Append_phase(data,
         [PhaseRec("phase4_save_verify") EXCEPT !.saved = TRUE, !.cdac = loc.cdac,
                                                !.fdac = loc.fdac])
    /\ loc' = [loc EXCEPT !.saved = TRUE]
    /\ Goto("clear_flag")
    /\ UNCHANGED <<args, in_cal_mode, synth, disk, hist>>

\* ---------------------------------------------- run_calibration: the epilogue

\* Line 667: in_cal_mode = False.
r_clear_flag ==
    /\ At("clear_flag")
    /\ in_cal_mode' = FALSE
    /\ Goto("after_p4")
    /\ UNCHANGED <<args, synth, loc, data, disk, hist>>

\* Lines 669-671: the save was declined: synth.cal_fst_quit().
r_decl_quit ==
    /\ At("after_p4")
    /\ ~loc.saved
    /\ synth' = cal_fst_quit(synth)
    /\ hist' = [hist EXCEPT !.quits = @ + 1, !.last_cal = "quit"]
    /\ Goto("result")
    /\ UNCHANGED <<args, in_cal_mode, loc, data, disk>>

\* Lines 672-675 and 682-685: the result block of a declined save.
r_result_declined ==
    /\ At("result")
    /\ data' = [data EXCEPT !.result =
          [kind |-> "final", saved |-> FALSE,
           final_cdac |-> loc.cdac, final_fdac |-> loc.fdac]]
    /\ disk' = save_data(data')
    /\ Return
    /\ UNCHANGED <<args, in_cal_mode, synth, hist>>

\* Lines 676-685: the result block of a committed calibration.
r_result_saved ==
    /\ At("after_p4")
    /\ loc.saved
    /\ data' = [data EXCEPT !.result =
          [kind |-> "final", saved |-> TRUE,
           final_cdac |-> loc.cdac, final_fdac |-> loc.fdac]]
    /\ disk' = save_data(data')
    /\ Return
    /\ UNCHANGED <<args, in_cal_mode, synth, hist>>

\* --------------------------------------------------- exceptions and unwinding

\* time.sleep(DAC_SETTLE_S), line 159.
Settle ==
    /\ pc \in TryPcs
    /\ sleep_pending
    /\ sleep_pending' = FALSE
    /\ dirty' = FALSE
    /\ UNCHANGED <<pc, exc, args, in_cal_mode, synth, loc, data, disk, hist, mo>>

\* KeyboardInterrupt is delivered before the next statement of the try body.
Interrupt ==
    /\ pc \in TryPcs
    /\ Raise("KeyboardInterrupt")
    /\ UNCHANGED <<args, in_cal_mode, synth, data, disk, dirty, hist>>

\* measure_offset raises RuntimeError("Insufficient samples") (lines 146-147).
MeasureFails ==
    /\ pc \in MeasurePcs
    /\ ~sleep_pending
    /\ Raise("RuntimeError")
    /\ UNCHANGED <<args, in_cal_mode, synth, data, disk, dirty, hist>>

\* Mutant of h_save: the except clauses re-raise without saving the record.
h_save_skipped ==
    /\ pc = "h_save"
    /\ pc' = "fin_quit"
    /\ UNCHANGED <<exc, args, in_cal_mode, synth, loc, data, disk, sleep_pending,
                   dirty, hist, mo>>

\* Lines 687-695: both except clauses save the record and re-raise.
h_save ==
    /\ pc = "h_save"
    /\ disk' = save_data(data)
    /\ pc' = "fin_quit"
    /\ UNCHANGED <<exc, args, in_cal_mode, synth, loc, data, sleep_pending, dirty,
                   hist, mo>>

\* Lines 699-703: the finally clause leaves calibration mode if the flag is set.
fin_quit ==
    /\ pc = "fin_quit"
    /\ IF in_cal_mode
       THEN /\ synth' = cal_fst_quit(synth)
            /\ hist' = [hist EXCEPT !.quits = @ + 1, !.last_cal = "quit",
                                    !.fin_quit = TRUE]
       ELSE UNCHANGED <<synth, hist>>
    /\ pc' = "fin_rf"
    /\ UNCHANGED <<exc, args, in_cal_mode, loc, data, disk, sleep_pending, dirty, mo>>

\* Lines 704-707: rf_off; then the return value or the exception reaches the
\* caller.
fin_rf ==
    /\ pc = "fin_rf"
    /\ synth' = [synth EXCEPT !.rf = FALSE]
    /\ hist' = [hist EXCEPT !.rf_off = TRUE]
    /\ pc' = IF exc = "none" THEN "returned" ELSE "raised"
    /\ UNCHANGED <<exc, args, in_cal_mode, loc, data, disk, sleep_pending, dirty, mo>>

\* ------------------------------------------------------------- specification

Next ==
    \/ r_setup \/ r_quit0 \/ r_rf_on
    \/ p0_date \/ p0_ext \/ p0_int \/ r_save0
    \/ r_measure_only \/ r_cal_init \/ r_set_flag \/ r_read_dac
    \/ p1_start \/ p1_meas_a \/ p1_write_b \/ p1_meas_b \/ p1_restore \/ p1_ret
    \/ r_save1
    \/ r_dry_plan \/ r_dry_quit \/ r_dry_flag \/ r_dry_result
    \/ p2_start \/ p2_iter \/ p2_meas \/ p2_ret \/ r_save2
    \/ p3_meas_a \/ p3_write_b \/ p3_meas_b \/ p3_restore \/ p3_loop
    \/ p3_sat_meas \/ p3_sat_mid \/ p3_sat_remeas \/ p3_nb_meas \/ p3_meas
    \/ p3_ret \/ r_save3
    \/ p4_ask \/ p4_save \/ p4_verify \/ p4_ext \/ p4_ck1 \/ p4_ck2 \/ p4_ret
    \/ r_clear_flag \/ r_decl_quit \/ r_result_declined \/ r_result_saved
    \/ Settle \/ Interrupt \/ MeasureFails
    \/ h_save \/ fin_quit \/ fin_rf

Spec == Init /\ [][Next]_vars

\* The interpreter keeps executing run_calibration until it has ended.
FairSpec == Spec /\ WF_vars(Next)


\* ---------------------------------------------------------------- properties

\* The statements of each phase that runs in calibration mode.
Phase1Pcs == {"p1_start", "p1_meas_a", "p1_write_b", "p1_meas_b", "p1_restore", "p1_ret"}
Phase2Pcs == {"p2_iter", "p2_meas", "p2_ret"}
Phase3Pcs == {"p3_meas_a", "p3_write_b", "p3_meas_b", "p3_restore", "p3_loop",
              "p3_sat_meas", "p3_sat_mid", "p3_sat_remeas", "p3_nb_meas", "p3_meas",
              "p3_ret"}
Phase4Pcs == {"p4_ask", "p4_save", "p4_verify", "p4_ext", "p4_ck1", "p4_ck2", "p4_ret"}

\* The names of the phase records, in the order of the phases.
PhaseOrder == <<"phase0_verify", "phase1_cdac_sensitivity", "phase2_coarse",
                "phase3_fine", "phase4_save_verify">>

Names(phases) == [i \in 1..Len(phases) |-> phases[i].name]

IsPrefix(a, b) == Len(a) <= Len(b) /\ \A i \in 1..Len(a) : a[i] = b[i]

\* C1: for every way run_calibration can end, the instrument's effective
\* coarse and fine DAC values are the ones cal_fst_save wrote to EEPROM in this
\* session or exactly the values they had at session start.
C1_CommittedOrRestored ==
    pc \in EndPcs =>
        \/ /\ hist.saves > 0
           /\ synth.cdac = synth.ee_cdac
           /\ synth.fdac = synth.ee_fdac
        \/ /\ synth.cdac = hist.start_cdac
           /\ synth.fdac = hist.start_fdac

\* C2: once cal_fst_init has been sent, on every exit path cal_fst_save or
\* cal_fst_quit has been sent after the last cal_fst_init: the instrument is
\* never left in calibration mode.
C2_NeverLeftInCalMode ==
    pc \in EndPcs => hist.last_cal # "init"

\* C3: every path that ends by raising, whether or not calibration mode was
\* entered, has attempted cal_fst_quit and rf_off between the raise and the
\* moment the error reaches the caller.
C3_RaiseAttemptsQuitAndRfOff ==
    pc = "raised" => hist.fin_quit /\ hist.rf_off

\* C4: cal_fst_save is sent at most once per session, only after phase 3 has
\* returned, only with auto_save or the answer 'y', and never in a
\* measure-only or dry-run session.
C4_SaveOnlyWhenConfirmed ==
    /\ hist.saves <= 1
    /\ hist.saves > 0 =>
         /\ Len(data.phases) >= 4
         /\ data.phases[4].name = "phase3_fine"
         /\ args.auto_save \/ hist.response = "y"
         /\ ~args.measure_only
         /\ ~args.dry_run

\* The operator answered 'y' and the commit was sent.
C4_Witness ==
    hist.saves = 1 /\ ~args.auto_save /\ hist.response = "y"

\* C5: with start values in [0,255], every value passed to
\* cal_fst_set_coarse_dac / cal_fst_set_fine_dac is in [0,255]: the driver's
\* range error is never raised and the DACs stay in the domain.
C5_WritesInRange ==
    /\ exc # "ValueError"
    /\ InRange(synth.cdac)
    /\ InRange(synth.fdac)

\* A fine proposal was clamped to a limit of the domain and written.
C5_Witness ==
    pc = "p3_sat_meas" /\ synth.fdac \in {0, DAC_MAX} /\ exc = "none"

\* C6: no measurement starts after a DAC write without a completed settling
\* delay in between.
C6_SettledBeforeMeasure ==
    (pc \in MeasurePcs /\ ~sleep_pending) => ~dirty

\* The measurement of the saturation branch is about to start, after the
\* write of the clamped fine value and its settling delay.
C6_Witness ==
    pc = "p3_sat_meas" /\ ~sleep_pending /\ ~dirty

\* C7: the record is on disk after each of phase 0..3 and before the next
\* phase starts, and when the session unwinds with an exception the file
\* holds the records of every completed phase, in order.
C7_RecordPersisted ==
    /\ pc \in Phase1Pcs => disk.exists /\ Len(disk.phases) >= 1
    /\ pc \in Phase2Pcs => disk.exists /\ Len(disk.phases) >= 2
    /\ pc \in Phase3Pcs => disk.exists /\ Len(disk.phases) >= 3
    /\ pc \in Phase4Pcs => disk.exists /\ Len(disk.phases) >= 4
    /\ pc = "raised" =>
         /\ disk.exists
         /\ disk.phases = data.phases
         /\ IsPrefix(Names(disk.phases), PhaseOrder)

\* A measurement of phase 3 raised after phases 0..2 had completed.
C7_Witness ==
    pc = "raised" /\ exc = "RuntimeError" /\ Len(disk.phases) = 3

\* The iteration counters stay within the caps of the loops: a coarse or fine
\* iteration starts only below its cap.
LoopBounds ==
    /\ pc \in Phase2Pcs => loc.iteration <= COARSE_ITERATIONS
    /\ pc = "p2_iter" => loc.iteration < COARSE_ITERATIONS
    /\ pc \in Phase3Pcs => loc.iteration <= FINE_ITERATIONS
    /\ pc \in {"p3_sat_meas", "p3_sat_mid", "p3_sat_remeas", "p3_nb_meas", "p3_meas"}
         => loc.iteration < FINE_ITERATIONS
    /\ loc.cdac_readjust_count <= MAX_CDAC_READJUST

\* C10: at most 3 coarse correction iterations, at most 8 fine loop
\* iterations and at most 2 coarse readjustments in a session, and phase 3
\* always ends.
C10_BoundedLoops ==
    /\ []LoopBounds
    /\ (pc \in Phase3Pcs) ~> (pc \notin Phase3Pcs)

\* The fine loop ran out of iterations after both readjustments were used.
C10_Witness ==
    /\ pc = "p3_loop"
    /\ loc.iteration = FINE_ITERATIONS
    /\ loc.cdac_readjust_count = MAX_CDAC_READJUST

\* C11: in a fine-loop iteration with readjustment budget remaining, the
\* saturation fallback is taken if and only if the unclamped proposal
\* fdac + round(-offset/gain) lies outside [0,255].
C11_FallbackIffOutside ==
    [][(/\ pc = "p3_loop"
        /\ ~sleep_pending
        /\ FineLoopContinues(loc.iteration)
        /\ loc.cdac_readjust_count < MAX_CDAC_READJUST
        /\ pc' \in {"p3_sat_meas", "p3_nb_meas", "p3_meas"})
       => (pc' = "p3_sat_meas"
             <=> ~InRange(loc.fdac + Correction(loc.offset_hz, loc.hz_per_fdac)))]_vars

\* The first fallback: the proposal was above 255, and 255 was written.
C11_Witness ==
    /\ pc = "p3_sat_meas"
    /\ loc.cdac_readjust_count = 1
    /\ loc.fdac + Correction(loc.offset_hz, loc.hz_per_fdac) > DAC_MAX
    /\ synth.fdac = DAC_MAX

\* C12: phase2_coarse_correction entered with |offset| < coarse_threshold is
\* one step that writes no DAC, takes no measurement, appends a record marked
\* skipped and hands back the coarse value and the offset it was given; with
\* |offset| >= coarse_threshold the correction loop is entered instead. The
\* outcome is a function of the inputs.
C12_SkipWritesNothing ==
    [][(pc = "after_p1" /\ pc' \in {"save2", "p2_iter"})
       => IF Abs(loc.offset_hz) < COARSE_THRESHOLD_HZ
          THEN /\ pc' = "save2"
               /\ synth' = synth
               /\ hist' = hist
               /\ dirty' = dirty
               /\ sleep_pending' = sleep_pending
               /\ loc'.cdac = loc.cdac
               /\ loc'.offset_hz = loc.offset_hz
               /\ data'.phases = Append(data.phases,
                     [PhaseRec("phase2_coarse") EXCEPT !.skipped = TRUE])
          ELSE /\ pc' = "p2_iter"
               /\ data' = data]_vars

\* Phase 2 was skipped with the DACs as phase 1 left them.
C12_Witness ==
    /\ pc = "save2"
    /\ data.phases[3].skipped
    /\ BelowCoarse(loc.offset_hz)
    /\ synth.cdac = loc.cdac
    /\ ~dirty

\* C13: after a sensitivity probe, on every return path of the probe, the
\* probed stage of the instrument holds its nominal value again and the
\* settling delay after the restoring write has elapsed: the coarse DAC when
\* phase 1 returns, the fine DAC when the fine loop starts and when phase 3
\* has returned.
C13_ProbeRestoresNominal ==
    /\ (pc = "p1_ret" /\ ~sleep_pending) => (synth.cdac = loc.cdac /\ ~dirty)
    /\ (pc = "p3_loop" /\ ~sleep_pending) => (synth.fdac = loc.fdac /\ ~dirty)
    /\ pc = "save3" => (synth.fdac = loc.fdac /\ ~dirty)

\* C14: no correction is computed by dividing by a gain below the noise floor:
\* a fine correction is planned only with a fine gain above the floor, a coarse
\* correction only with a coarse gain above it, and the division by a zero gain
\* (ZeroDivisionError) never happens.
C14_NoDivisionByLowGain ==
    /\ pc \in {"p3_restore", "p3_loop", "p3_sat_meas", "p3_nb_meas", "p3_meas"}
         => loc.hz_per_fdac[1] # 0
    /\ pc \in {"dry_quit", "p2_meas", "p3_sat_mid"} => loc.hz_per_cdac[1] # 0
    /\ exc # "ZeroDivisionError"

\* C15: when the readjustment budget is exhausted and the fine stage saturates
\* again, the offset phase 3 reports is the best measurement achieved: no
\* measurement of the fine loop, from that iteration on, has a smaller
\* magnitude.
C15_PartialReportsBest ==
    (pc = "p3_ret" /\ loc.partial_best # -1) => Abs(loc.offset_hz) <= loc.partial_best

\* C16: in the saturation fallback, when round(-residual/coarse_gain) is 0 and
\* the residual is not, the unit step substituted for it has the sign of
\* -residual/coarse_gain.
C16_UnitStepSign ==
    (/\ pc = "p3_sat_mid"
     /\ loc.mean_sat # 0
     /\ Correction(loc.mean_sat, loc.hz_per_cdac) = 0)
    => loc.cdac_correction * (-loc.mean_sat) * loc.hz_per_cdac[1] * loc.hz_per_cdac[2] > 0

\* C17: every saturation fallback makes forward progress on the coarse stage:
\* the coarse value the readjustment writes differs from the one before it.
C17_ForwardProgress ==
    pc = "p3_sat_mid" => loc.new_dac # loc.cdac

\* C19: the neighbour search keeps whichever of the two neighbours current-1
\* and current+1 gave the smaller |mean|: when it ends, the fine DAC of the
\* controller and of the instrument is one of those two neighbours.
C19_KeepsBetterNeighbour ==
    [][(pc = "p3_nb_meas" /\ pc' = "p3_ret")
       => (/\ loc'.fdac \in {loc.fdac - 1, loc.fdac + 1}
           /\ synth'.fdac = loc'.fdac)]_vars


\* C25: the phase records are appended in the order of the phases, each at
\* most once and none before an earlier one; the list only grows, one record
\* at a time, and every phase starts with the records of all earlier phases
\* (a skipped phase 2 included) in place.
C25_PhasesInOrder ==
    /\ [](IsPrefix(Names(data.phases), PhaseOrder))
    /\ [][/\ Len(data'.phases) \in {Len(data.phases), Len(data.phases) + 1}
           /\ IsPrefix(Names(data.phases), Names(data'.phases))]_vars
    /\ [](pc \in Phase1Pcs => Len(data.phases) = 1)
    /\ [](pc \in Phase2Pcs => Len(data.phases) = 2)
    /\ [](pc \in Phase3Pcs => Len(data.phases) = 3)
    /\ [](pc \in Phase4Pcs => Len(data.phases) \in {4, 5})

\* A session that skipped phase 2 returned with all five records.
C25_Witness ==
    /\ pc = "returned"
    /\ Len(data.phases) = Len(PhaseOrder)
    /\ data.phases[3].skipped

C27_EarlyExit ==
    /\ [][(pc = "p2_meas" /\ pc' \in {"p2_iter", "p2_ret"}
                          /\ Abs(loc'.offset_hz) < 5)
           => pc' = "p2_ret" /\ loc'.cdac = synth.cdac]_vars
    /\ [][(pc = "p3_meas" /\ pc' \in {"p3_loop", "p3_ret"}
                          /\ Abs(loc'.offset_hz) * 10000 < 100 * 625)
           => pc' = "p3_ret" /\ loc'.fdac = synth.fdac]_vars
    /\ [][(pc = "p2_ret" /\ pc' \in TryPcs \ {"p2_ret"})
           => /\ pc' = "save2"
              /\ synth' = synth
              /\ loc'.cdac = loc.cdac
              /\ loc'.offset_hz = loc.offset_hz]_vars
    /\ [][(pc = "p3_ret" /\ pc' \in TryPcs \ {"p3_ret"})
           => /\ pc' = "save3"
              /\ synth' = synth
              /\ loc'.cdac = loc.cdac
              /\ loc'.fdac = loc.fdac
              /\ loc'.offset_hz = loc.offset_hz]_vars

\* The fine loop returned after its first iteration, on target, with
\* iterations to spare.
C27_Witness ==
    /\ pc = "p3_ret"
    /\ loc.iteration = 1
    /\ loc.cdac_readjust_count = 0
    /\ loc.offset_hz = 0
    /\ loc.fdac = synth.fdac
    /\ loc.fdac # FDAC_MID

\* The statements of the fine loop and of its fallback and neighbour search.
FineLoopPcs == {"p3_restore", "p3_loop", "p3_sat_meas", "p3_sat_mid",
                "p3_sat_remeas", "p3_nb_meas", "p3_meas"}

\* C30: with a probed fine gain below the floor phase 3 raises nothing, runs
\* no statement of the fine loop, appends its record and returns (cdac, fdac,
\* mean_a); the session goes on to phase 4.
C30_LowGainReturns ==
    /\ [](pc \in FineLoopPcs => loc.hz_per_fdac[1] # 0)
    /\ [][(pc = "p3_meas_b" /\ pc' \in TryPcs \ {"p3_meas_b"}
                            /\ loc'.hz_per_fdac[1] = 0)
           => /\ pc' = "save3"
              /\ exc' = "none"
              /\ synth' = synth
              /\ data'.phases = Append(data.phases, PhaseRec("phase3_fine"))
              /\ loc'.cdac = loc.cdac
              /\ loc'.fdac = loc.fdac
              /\ loc'.offset_hz = loc.mean_a
              /\ loc'.iteration = 0
              /\ loc'.cdac_readjust_count = 0]_vars
    /\ [][(pc = "save3" /\ pc' \in TryPcs \ {"save3"}) => pc' = "p4_ask"]_vars

\* Phase 4 began after phase 3 returned at the gain floor: its record carries
\* no final values.
C30_Witness ==
    /\ pc = "p4_ask"
    /\ Len(data.phases) = 4
    /\ data.phases[4].name = "phase3_fine"
    /\ data.phases[4].cdac = -1
    /\ exc = "none"

\* C31: the DAC reads, the DAC writes and the EEPROM commit are sent only
\* while the instrument is in calibration mode, after the session's
\* cal_fst_init with no cal_fst_quit or cal_fst_save since; so no quit lies
\* between the last DAC write and the commit.
C31_OnlyInCalMode ==
    /\ [](hist.cal_at_write)
    /\ [][(synth'.cdac # synth.cdac \/ synth'.fdac # synth.fdac)
             /\ hist'.quits = hist.quits
           => synth.cal /\ synth'.cal /\ hist.last_cal = "init"]_vars
    /\ [][(pc = "read_dac" /\ pc' = "p1_start")
           => synth.cal /\ hist.last_cal = "init"]_vars
    /\ [][hist'.saves # hist.saves
           => /\ synth.cal
              /\ hist.last_cal = "init"
              /\ hist'.quits = hist.quits]_vars

\* The commit was sent after DAC writes that moved both stages.
C31_Witness ==
    /\ pc = "p4_verify"
    /\ hist.saves = 1
    /\ hist.last_cal = "save"
    /\ synth.ee_cdac # hist.start_cdac
    /\ synth.ee_fdac # hist.start_fdac

\* C32: once cal_fst_save has been sent, the record on disk when
\* run_calibration ends has the phase-4 record with saved = true and a result
\* block with saved = true, also when the verification raised or was
\* interrupted.
C32_CommitReported ==
    (pc \in EndPcs /\ hist.saves > 0) =>
        /\ disk.exists
        /\ Len(disk.phases) = Len(PhaseOrder)
        /\ disk.phases[Len(PhaseOrder)].name = "phase4_save_verify"
        /\ disk.phases[Len(PhaseOrder)].saved
        /\ disk.result.saved

\* C33: when cal_fst_save is sent the instrument's coarse and fine DAC are
\* the (cdac, fdac) phase 3 returned, which phase 4 records as saved.
C33_CommitsReturnedPair ==
    [][hist'.saves # hist.saves
       => /\ synth.cdac = loc.cdac
          /\ synth.fdac = loc.fdac
          /\ synth'.ee_cdac = loc.cdac
          /\ synth'.ee_fdac = loc.fdac]_vars

\* C34: when run_calibration returns after phase 4, final_cdac and final_fdac
\* of the result block are the coarse and fine DAC in effect on the
\* instrument, whether the commit was accepted or declined.
C34_ResultMatchesInstrument ==
    (pc = "returned" /\ data.result.kind = "final") =>
        /\ data.result.final_cdac = synth.cdac
        /\ data.result.final_fdac = synth.fdac

\* ------------------------------------------- the measure_offset specification

\* A call of measure_offset with some duration_s, the history holding whatever
\* the FPGA streamed before the call; an earlier call consumed that history.
MeasureInit ==
    /\ pc = "p0_int"
    /\ exc = "none"
    /\ args = [measure_only |-> FALSE, dry_run |-> FALSE, auto_save |-> FALSE]
    /\ in_cal_mode = FALSE
    /\ synth = [cal |-> FALSE, cdac |-> 0, fdac |-> FDAC_MID,
                ee_cdac |-> 0, ee_fdac |-> FDAC_MID, rf |-> TRUE]
    /\ hist = [saves |-> 0, quits |-> 1, last_cal |-> "quit",
               rf_off |-> FALSE, fin_quit |-> FALSE, cal_at_write |-> TRUE,
               response |-> "none", start_cdac |-> 0, start_fdac |-> FDAC_MID]
    /\ loc = InitLoc
    /\ data = [phases |-> <<>>, result |-> NoResult]
    /\ disk = NoFile
    /\ sleep_pending = FALSE
    /\ dirty = FALSE
    /\ \E d \in Durations, old \in {<<>>, <<1>>} :
         mo = [IdleMo EXCEPT !.pc = "flush", !.duration_s = d, !.stream = old,
                             !.calls = 1,
                             !.prev_last_seq = IF old = <<>> THEN 0 ELSE Last(old),
                             !.present_seq = IF old = <<>> THEN 0 ELSE Last(old)]

\* The steps of measure_offset itself.
MeasureStep ==
    \/ m_flush_poll \/ m_flush_sleep \/ m_loop_test \/ m_poll \/ m_sleep
    \/ m_after_loop \/ m_next_call

MeasureNext == MeasureStep \/ Produce

\* The interpreter keeps executing measure_offset; the stream may stall.
MeasureSpec == MeasureInit /\ [][MeasureNext]_vars /\ WF_vars(MeasureStep)

\* C8: measure_offset never returns a Measurement of fewer than 3
\* post-transient samples: it returns with count >= 3 or raises.
C8_AtLeastThreeSamples ==
    /\ mo.pc = "returned" => Len(mo.values) >= MIN_SAMPLES
    /\ mo.pc = "raised" => Len(mo.values) < MIN_SAMPLES

\* The budget cut the window short of duration_s, and the three samples
\* counted by then were returned as a Measurement.
C8_Witness ==
    /\ mo.pc = "returned"
    /\ Len(mo.values) = MIN_SAMPLES
    /\ Len(mo.values) < mo.duration_s

\* C9: measure_offset and its flush always terminate: the flush performs at
\* most 5 polls, a poll of the loop happens only while the count is below
\* duration_s and the budget has not elapsed, and the call ends.
C9_Terminates ==
    /\ [](mo.flush_i <= FLUSH_POLLS)
    /\ [](mo.pc = "poll" =>
            /\ Len(mo.values) < mo.duration_s
            /\ mo.elapsed < (mo.duration_s + DISCARD_FIRST_SAMPLES + ACQ_SLACK_S)
                               * POLLS_PER_S)
    /\ <>(mo.pc \in {"returned", "raised"})

\* The stream stalled and the call ended on its budget.
C9_Witness ==
    /\ mo.pc = "raised"
    /\ mo.flush_i = 1
    /\ mo.stream = <<>>
    /\ ~WithinBudget(mo.elapsed, mo.duration_s)

\* C20: no sample is counted twice: within one measure_offset call every
\* seq_counter contributes at most once to the mean, and no seq_counter
\* consumed (counted or discarded) by the previous call contributes to this
\* one, on an append-only stream of strictly increasing seq_counters with gaps.
C20_NoDoubleCounting ==
    /\ \A i, j \in 1..Len(mo.values) : i < j => mo.values[i] < mo.values[j]
    /\ \A i \in 1..Len(mo.values) : mo.values[i] > mo.prev_last_seq

\* A call returned a Measurement from a stream of which an earlier call had
\* consumed a sample.
C20_Witness ==
    /\ mo.pc = "returned"
    /\ mo.prev_last_seq > 0
    /\ mo.stream[1] <= mo.prev_last_seq
    /\ Len(mo.values) >= MIN_SAMPLES



\* The samples the acquisition loop has pulled in this call: the last
\* raw_count samples of the stream up to last_seq.
Pulled ==
    LET upto == SelectSeq(mo.stream, LAMBDA o : o <= mo.last_seq)
    IN  SubSeq(upto, Len(upto) - mo.raw_count + 1, Len(upto))

\* C28: the values of a measure_offset call are the samples pulled after the
\* flush without the first 2 of them, so the count is the number pulled
\* minus 2; no sample that was in the stream when the call began is among them.
C28_FirstTwoDiscarded ==
    /\ Len(mo.values) = Max(mo.raw_count - 2, 0)
    /\ mo.raw_count <= Len(SelectSeq(mo.stream, LAMBDA o : o > mo.present_seq))
    /\ mo.values = SubSeq(Pulled, 3, Len(Pulled))
    /\ \A i \in 1..Len(mo.values) : mo.values[i] > mo.present_seq

\* A first call returned over a stream that held a sample when it began; two
\* newer samples were pulled and dropped.
C28_Witness ==
    /\ mo.pc = "returned"
    /\ mo.calls = 1
    /\ mo.present_seq = 1
    /\ mo.raw_count = Len(mo.values) + 2
    /\ Len(mo.stream) >= mo.raw_count + 1
    /\ mo.values[1] > mo.stream[3]

\* ------------------------------------------------ the planner specification
\* round(-offset_hz / hz_per_cdac) and the clamp (lines 293-294; the same
\* expressions at 365-367, 382-385 and 639-640), applied to inputs of both
\* signs.

\* The largest |offset| (Hz) and the largest |mean_b - mean_a| (Hz) of an input.
MaxPlanOffset == 3
MaxPlanGain == 4

\* The coarse values of an input: the probe of phase 1 (lines 253-257) has
\* delta_cdac = +10 at the bottom of the domain, +1 just below the top and -10
\* at the top.
PlanCdacs == {0, DAC_MAX - 1, DAC_MAX}

PlanInit ==
    /\ pc = "plan"
    /\ exc = "none"
    /\ args = [measure_only |-> FALSE, dry_run |-> FALSE, auto_save |-> FALSE]
    /\ in_cal_mode = TRUE
    /\ synth = [cal |-> TRUE, cdac |-> 0, fdac |-> FDAC_MID,
                ee_cdac |-> 0, ee_fdac |-> FDAC_MID, rf |-> TRUE]
    /\ hist = [saves |-> 0, quits |-> 1, last_cal |-> "init",
               rf_off |-> FALSE, fin_quit |-> FALSE, cal_at_write |-> TRUE,
               response |-> "none", start_cdac |-> 0, start_fdac |-> FDAC_MID]
    /\ \E offset_hz \in -MaxPlanOffset..MaxPlanOffset,
          num \in (-MaxPlanGain..MaxPlanGain) \ {0},
          cdac \in PlanCdacs :
         loc = [InitLoc EXCEPT !.offset_hz = offset_hz,
                               !.hz_per_cdac =
                                   <<num, ProbePoint(cdac, CDAC_PROBE_STEP) - cdac>>,
                               !.cdac = cdac]
    /\ data = [phases |-> <<>>, result |-> NoResult]
    /\ disk = NoFile
    /\ sleep_pending = FALSE
    /\ dirty = FALSE
    /\ mo = IdleMo

\* Lines 293-294: correction = round(-offset_hz / hz_per_cdac);
\* new_cdac = int(np.clip(cdac + correction, 0, 255)).
plan_correction ==
    /\ pc = "plan"
    /\ pc' = "planned"
    /\ LET correction == Correction(loc.offset_hz, loc.hz_per_cdac)
       IN  loc' = [loc EXCEPT !.cdac_correction = correction,
                              !.new_dac = Clip(loc.cdac + correction)]
    /\ UNCHANGED <<exc, args, in_cal_mode, synth, data, disk, sleep_pending,
                   dirty, hist, mo>>

PlanNext == plan_correction

PlanSpec == PlanInit /\ [][PlanNext]_vars

\* Twice the magnitude of -offset_hz / hz_per_cdac, when that is an integer.
TwiceQuotient(l) ==
    (2 * Abs(l.offset_hz * l.hz_per_cdac[2])) \div Abs(l.hz_per_cdac[1])

\* -offset_hz / hz_per_cdac is exactly halfway between two integers.
IsTie(l) ==
    /\ (2 * Abs(l.offset_hz * l.hz_per_cdac[2])) % Abs(l.hz_per_cdac[1]) = 0
    /\ TwiceQuotient(l) % 2 = 1

\* C18: whenever -mean/gain is exactly halfway between two integers, the
\* planned correction is the neighbour farther from zero (0.5 gives 1, 2.5
\* gives 3, -0.5 gives -1).
C18_RoundHalfAway ==
    (pc = "planned" /\ IsTie(loc)) =>
        /\ 2 * Abs(loc.cdac_correction) = TwiceQuotient(loc) + 1
        /\ loc.cdac_correction * (-loc.offset_hz)
              * loc.hz_per_cdac[1] * loc.hz_per_cdac[2] > 0


\* ------------------------------------------- the linear-model specification
\* The coarse loop of phase 2 (lines 292-312) against a noiseless oscillator
\* whose offset is linear in the coarse DAC, with the gain phase 1 measures on
\* such an oscillator: the exact one.

\* The largest |offset| (Hz) at the start of the loop and the largest |gain|
\* (Hz per step).
LinMaxOffset == 30
LinMaxGain == 4

\* The coarse values at the start of the loop: at, near and away from the ends
\* of the domain.
LinCdacs == {0, 3, FDAC_MID, DAC_MAX - 3, DAC_MAX}

LinInit ==
    /\ pc = "p2_iter"
    /\ exc = "none"
    /\ args = [measure_only |-> FALSE, dry_run |-> FALSE, auto_save |-> FALSE]
    /\ in_cal_mode = TRUE
    /\ hist = [saves |-> 0, quits |-> 1, last_cal |-> "init",
               rf_off |-> FALSE, fin_quit |-> FALSE, cal_at_write |-> TRUE,
               response |-> "none", start_cdac |-> 0, start_fdac |-> FDAC_MID]
    /\ \E offset_hz \in {o \in -LinMaxOffset..LinMaxOffset : ~BelowCoarse(o)},
          g \in (-LinMaxGain..LinMaxGain) \ {0},
          cdac \in LinCdacs :
         LET delta_cdac == ProbePoint(cdac, CDAC_PROBE_STEP) - cdac
         IN  /\ loc = [InitLoc EXCEPT !.offset_hz = offset_hz,
                                      !.hz_per_cdac = <<g * delta_cdac, delta_cdac>>,
                                      !.cdac = cdac,
                                      !.fdac = FDAC_MID]
             /\ synth = [cal |-> TRUE, cdac |-> cdac, fdac |-> FDAC_MID,
                         ee_cdac |-> cdac, ee_fdac |-> FDAC_MID, rf |-> TRUE]
    /\ data = [phases |-> <<>>, result |-> NoResult]
    /\ disk = NoFile
    /\ sleep_pending = FALSE
    /\ dirty = FALSE
    /\ mo = IdleMo

\* The offset of the linear oscillator at the coarse value the instrument
\* holds: the straight line through (loc.cdac, loc.offset_hz) of slope
\* loc.hz_per_cdac.
LinearOffset ==
    loc.offset_hz
      + (loc.hz_per_cdac[1] * (synth.cdac - loc.cdac)) \div loc.hz_per_cdac[2]

\* Lines 299-312 with measure_offset returning the oscillator's offset.
lin_meas ==
    /\ At("p2_meas")
    /\ p2_after_meas(LinearOffset)
    /\ UNCHANGED <<args, in_cal_mode, synth, data, disk, hist>>

LinNext == p2_iter \/ Settle \/ lin_meas

LinSpec == LinInit /\ [][LinNext]_vars

\* C21: on a noiseless linear oscillator with the exact gain, a correction
\* iteration whose proposal is not clamped leaves |offset| at most |gain| / 2.
C21_HalfStepResidual ==
    [][(/\ pc = "p2_meas"
        /\ pc' \in {"p2_iter", "p2_ret"}
        /\ loc.new_dac = loc.cdac + Correction(loc.offset_hz, loc.hz_per_cdac))
       => 2 * Abs(loc'.offset_hz) * Abs(loc.hz_per_cdac[2])
            <= Abs(loc.hz_per_cdac[1])]_vars

\* One unclamped iteration ended exactly half a step from zero.
C21_Witness ==
    /\ pc = "p2_ret"
    /\ loc.iteration = 1
    /\ ~sleep_pending
    /\ synth.cdac \notin {0, DAC_MAX}
    /\ loc.offset_hz # 0
    /\ 2 * Abs(loc.offset_hz) * Abs(loc.hz_per_cdac[2]) = Abs(loc.hz_per_cdac[1])

\* C22: on a noiseless linear oscillator with the exact gain, |offset| after
\* each iteration of the coarse loop, clamped or not, is never larger than
\* before it, for at most 3 iterations.
C22_MonotoneCoarseLoop ==
    /\ [][(pc = "p2_meas" /\ pc' \in {"p2_iter", "p2_ret"})
           => Abs(loc'.offset_hz) <= Abs(loc.offset_hz)]_vars
    /\ [](loc.iteration <= COARSE_ITERATIONS)

\* The loop used its three iterations, the last proposal clamped to an end of
\* the domain and the offset still beyond the coarse threshold.
C22_Witness ==
    /\ pc = "p2_ret"
    /\ loc.iteration = COARSE_ITERATIONS
    /\ synth.cdac \in {0, DAC_MAX}
    /\ ~BelowCoarse(loc.offset_hz)


\* ------------------------------------------------ the save_data specification
\* save_data (lines 180-186) statement by statement: the document is written
\* piece by piece to the temporary file, which is then renamed onto the record
\* path. Every state of this specification is a moment at which another
\* process may read the record path.

\* The document before its last phase record was appended.
Earlier(d) ==
    [phases |-> SubSeq(d.phases, 1, Len(d.phases) - 1), result |-> NoResult]

\* What a reader of the record path sees.
RecordFile(f) == [exists |-> f.exists, phases |-> f.phases, result |-> f.result]

\* The pieces json.dump writes: one per phase record, then the result.
Pieces(d) == Len(d.phases) + 1

SaveInit ==
    /\ pc = "sd_open"
    /\ exc = "none"
    /\ args = [measure_only |-> FALSE, dry_run |-> FALSE, auto_save |-> FALSE]
    /\ in_cal_mode = FALSE
    /\ synth = [cal |-> FALSE, cdac |-> 0, fdac |-> FDAC_MID,
                ee_cdac |-> 0, ee_fdac |-> FDAC_MID, rf |-> TRUE]
    /\ hist = [saves |-> 0, quits |-> 1, last_cal |-> "quit",
               rf_off |-> FALSE, fin_quit |-> FALSE, cal_at_write |-> TRUE,
               response |-> "none", start_cdac |-> 0, start_fdac |-> FDAC_MID]
    /\ loc = InitLoc
    /\ \E n \in 0..Len(PhaseOrder), skipped \in BOOLEAN,
          kind \in {"none", "measure_only", "dry_run"} :
         data = [phases |-> [i \in 1..n |->
                               [PhaseRec(PhaseOrder[i]) EXCEPT
                                  !.skipped = (i = 3 /\ skipped)]],
                 result |-> [NoResult EXCEPT !.kind = kind]]
    /\ \E stale \in {NoTmp, 1} :
         \/ disk = [NoFile EXCEPT !.tmp = stale]
         \/ /\ Len(data.phases) > 0
            /\ disk = [save_data(Earlier(data)) EXCEPT !.tmp = stale]
    /\ sleep_pending = FALSE
    /\ dirty = FALSE
    /\ mo = IdleMo

\* Mutant of sd_open: the record path itself is opened for writing.
sd_open_in_place ==
    /\ pc = "sd_open"
    /\ pc' = "sd_dump"
    /\ disk' = [exists |-> TRUE, phases |-> <<>>, result |-> NoResult, tmp |-> 0]
    /\ UNCHANGED <<exc, args, in_cal_mode, synth, loc, data, sleep_pending,
                   dirty, hist, mo>>

\* Lines 181-183: open(tmp, 'w') creates or truncates the temporary file.
sd_open ==
    /\ pc = "sd_open"
    /\ pc' = "sd_dump"
    /\ disk' = [disk EXCEPT !.tmp = 0]
    /\ UNCHANGED <<exc, args, in_cal_mode, synth, loc, data, sleep_pending,
                   dirty, hist, mo>>

\* Line 184: json.dump writes the next piece; after the last one the with
\* block closes the file.
sd_dump ==
    /\ pc = "sd_dump"
    /\ disk' = [disk EXCEPT !.tmp = @ + 1]
    /\ pc' = IF disk.tmp + 1 = Pieces(data) THEN "sd_replace" ELSE "sd_dump"
    /\ UNCHANGED <<exc, args, in_cal_mode, synth, loc, data, sleep_pending,
                   dirty, hist, mo>>

\* Line 185: os.replace(tmp, filepath).
sd_replace ==
    /\ pc = "sd_replace"
    /\ pc' = "sd_done"
    /\ disk' = save_data(data)
    /\ UNCHANGED <<exc, args, in_cal_mode, synth, loc, data, sleep_pending,
                   dirty, hist, mo>>

\* Ctrl-C inside save_data: the call is abandoned where it stands.
sd_interrupt ==
    /\ pc \in {"sd_open", "sd_dump", "sd_replace"}
    /\ pc' = "raised"
    /\ exc' = "KeyboardInterrupt"
    /\ UNCHANGED <<args, in_cal_mode, synth, loc, data, disk, sleep_pending,
                   dirty, hist, mo>>

SaveNext == sd_open \/ sd_dump \/ sd_replace \/ sd_interrupt

SaveSpec == SaveInit /\ [][SaveNext]_vars

\* C23: the file at the record path is at every moment absent or the complete
\* document of one save_data call: it changes only by the rename, which puts
\* the whole record in place, and a completed call leaves what the one-step
\* save_data leaves.
C23_AtomicSave ==
    /\ [](disk.exists =>
            \/ RecordFile(disk) = RecordFile(save_data(data))
            \/ RecordFile(disk) = RecordFile(save_data(Earlier(data))))
    /\ [][RecordFile(disk') # RecordFile(disk)
           => /\ pc = "sd_replace"
              /\ disk.tmp = Pieces(data)
              /\ RecordFile(disk') = RecordFile(save_data(data))]_vars
    /\ [](pc = "sd_done" => disk = save_data(data))

\* A save interrupted with the temporary file half written, over an earlier
\* record of three phases.
C23_Witness ==
    /\ pc = "raised"
    /\ disk.tmp > 0
    /\ disk.tmp < Pieces(data)
    /\ disk.exists
    /\ Len(disk.phases) = 3
    /\ Len(data.phases) = 4


\* --------------------------------------------------- the driver specification
\* One call of cal_fst_set_coarse_dac or cal_fst_set_fine_dac
\* (ifr2023a.py:377-395) statement by statement; loc.new_dac is the argument
\* value.

\* How far beyond the ends of 0..255 the argument values go.
DrvMargin == 2

DriverInit ==
    /\ pc \in {"set_coarse", "set_fine"}
    /\ exc = "none"
    /\ args = [measure_only |-> FALSE, dry_run |-> FALSE, auto_save |-> FALSE]
    /\ in_cal_mode = TRUE
    /\ \E start \in StartDacs :
         /\ synth = [cal |-> TRUE, cdac |-> start[1], fdac |-> start[2],
                     ee_cdac |-> start[1], ee_fdac |-> start[2], rf |-> TRUE]
         /\ hist = [saves |-> 0, quits |-> 1, last_cal |-> "init",
                    rf_off |-> FALSE, fin_quit |-> FALSE, cal_at_write |-> TRUE,
                    response |-> "none",
                    start_cdac |-> start[1], start_fdac |-> start[2]]
    /\ \E value \in (-DrvMargin)..(DAC_MAX + DrvMargin) :
         loc = [InitLoc EXCEPT !.new_dac = value]
    /\ data = [phases |-> <<>>, result |-> NoResult]
    /\ disk = NoFile
    /\ sleep_pending = FALSE
    /\ dirty = FALSE
    /\ mo = IdleMo

\* Lines 383-384 and 393-394: the range test and its ValueError.
drv_test(at, write) ==
    /\ pc = at
    /\ IF InRange(loc.new_dac)
       THEN pc' = write /\ exc' = exc
       ELSE pc' = "raised" /\ exc' = "ValueError"
    /\ UNCHANGED <<args, in_cal_mode, synth, loc, data, disk, sleep_pending,
                   dirty, hist, mo>>

\* Lines 385 and 395: self.write of the one set command.
drv_write(at, stage, ret) ==
    /\ pc = at
    /\ pc' = ret
    /\ synth' = cal_fst_set_dac(synth, stage, loc.new_dac)
    /\ UNCHANGED <<exc, args, in_cal_mode, loc, data, disk, sleep_pending,
                   dirty, hist, mo>>

set_coarse_test == drv_test("set_coarse", "write_coarse")

set_coarse_write == drv_write("write_coarse", "coarse", "ret_coarse")

set_fine_test == drv_test("set_fine", "write_fine")

set_fine_write == drv_write("write_fine", "fine", "ret_fine")

DriverNext ==
    set_coarse_test \/ set_coarse_write \/ set_fine_test \/ set_fine_write

DriverSpec == DriverInit /\ [][DriverNext]_vars

\* C24: a setter called with a value outside 0..255 raises ValueError and
\* leaves both DACs as they were; called with a value inside, it sends one
\* command, which sets the DAC of its stage to the value and leaves the other
\* DAC alone.
C24_SetterRange ==
    /\ [](pc = "raised" =>
            /\ exc = "ValueError"
            /\ (loc.new_dac < 0 \/ loc.new_dac > 255)
            /\ synth.cdac = hist.start_cdac
            /\ synth.fdac = hist.start_fdac)
    /\ [](pc \in {"write_coarse", "write_fine", "ret_coarse", "ret_fine"} =>
            (0 <= loc.new_dac /\ loc.new_dac <= 255))
    /\ [](pc = "ret_coarse" =>
            synth.cdac = loc.new_dac /\ synth.fdac = hist.start_fdac)
    /\ [](pc = "ret_fine" =>
            synth.fdac = loc.new_dac /\ synth.cdac = hist.start_cdac)
    /\ [][synth' # synth =>
            \/ pc = "write_coarse" /\ pc' = "ret_coarse"
            \/ pc = "write_fine" /\ pc' = "ret_fine"]_vars

\* Both ends of the test are exercised: -1 was refused.
C24_Witness ==
    /\ pc = "raised"
    /\ exc = "ValueError"
    /\ loc.new_dac = -1
    /\ synth.cdac = 120


\* ---------------------------------------------------- the probe specification
\* The second point of the two sensitivity probes (lines 253-264, 340-350),
\* from the first measurement on, for every nominal value the phase functions
\* accept as their cdac or fdac argument.

ProbeInit ==
    /\ exc = "none"
    /\ args = [measure_only |-> FALSE, dry_run |-> FALSE, auto_save |-> FALSE]
    /\ in_cal_mode = TRUE
    /\ \E nominal \in 0..DAC_MAX, mean_a \in MeasVals :
         \/ /\ pc = "p1_write_b"
            /\ loc = [InitLoc EXCEPT !.cdac = nominal, !.fdac = FDAC_MID,
                                     !.mean_a = mean_a]
            /\ synth = [cal |-> TRUE, cdac |-> nominal, fdac |-> FDAC_MID,
                        ee_cdac |-> nominal, ee_fdac |-> FDAC_MID, rf |-> TRUE]
            /\ hist = [saves |-> 0, quits |-> 1, last_cal |-> "init",
                       rf_off |-> FALSE, fin_quit |-> FALSE,
                       cal_at_write |-> TRUE, response |-> "none",
                       start_cdac |-> nominal, start_fdac |-> FDAC_MID]
            /\ data = [phases |-> <<PhaseRec(PhaseOrder[1])>>,
                       result |-> NoResult]
         \/ /\ pc = "p3_write_b"
            /\ loc = [InitLoc EXCEPT !.cdac = FDAC_MID, !.fdac = nominal,
                                     !.mean_a = mean_a,
                                     !.hz_per_cdac = <<SmallOffset, CDAC_PROBE_STEP>>]
            /\ synth = [cal |-> TRUE, cdac |-> FDAC_MID, fdac |-> nominal,
                        ee_cdac |-> FDAC_MID, ee_fdac |-> FDAC_MID, rf |-> TRUE]
            /\ hist = [saves |-> 0, quits |-> 1, last_cal |-> "init",
                       rf_off |-> FALSE, fin_quit |-> FALSE,
                       cal_at_write |-> TRUE, response |-> "none",
                       start_cdac |-> FDAC_MID, start_fdac |-> FDAC_MID]
            /\ data = [phases |-> [i \in 1..3 |-> PhaseRec(PhaseOrder[i])],
                       result |-> NoResult]
    /\ disk = save_data(data)
    /\ sleep_pending = FALSE
    /\ dirty = FALSE
    /\ mo = IdleMo

ProbeNext == p1_write_b \/ p1_meas_b \/ p3_write_b \/ p3_meas_b \/ Settle

ProbeSpec == ProbeInit /\ [][ProbeNext]_vars

\* C29: the second point of a sensitivity probe lies in 0..255 and differs
\* from the nominal value: it is nominal + step cut off at 255, or
\* nominal - step when the nominal value is 255; the denominator of the
\* finite difference is never 0.
C29_ProbeDenominatorNonZero ==
    /\ pc = "p1_meas_b" =>
         /\ synth.cdac # loc.cdac
         /\ synth.cdac >= 0 /\ synth.cdac <= 255
         /\ synth.cdac = loc.new_dac
         /\ synth.cdac = IF loc.cdac = 255 THEN 245
                         ELSE IF loc.cdac > 245 THEN 255 ELSE loc.cdac + 10
    /\ pc = "p3_meas_b" =>
         /\ synth.fdac # loc.fdac
         /\ synth.fdac >= 0 /\ synth.fdac <= 255
         /\ synth.fdac = loc.new_dac
         /\ synth.fdac = IF loc.fdac = 255 THEN 235
                         ELSE IF loc.fdac > 235 THEN 255 ELSE loc.fdac + 20
    /\ pc = "p1_restore" => loc.hz_per_cdac[2] = synth.cdac - loc.cdac
                              /\ loc.hz_per_cdac[2] # 0
    /\ pc = "p3_restore" => loc.hz_per_fdac[2] = synth.fdac - loc.fdac
                              /\ loc.hz_per_fdac[2] # 0

\* The coarse probe at the top of the domain turned downwards and produced
\* a gain over -10 steps.
C29_Witness ==
    /\ pc = "p1_restore"
    /\ loc.cdac = DAC_MAX
    /\ synth.cdac = DAC_MAX - CDAC_PROBE_STEP
    /\ loc.hz_per_cdac[2] = -CDAC_PROBE_STEP

====
